---- MODULE Spec2Model ----
(***************************************************************************)
(* A model of package wmi (wmi.go): Query, loadEntity and checkMultiArg.   *)
(*                                                                         *)
(* Go strings are tuples of one-character strings.  Every Go value of the  *)
(* model is a record of one fixed shape, so that any two values compare.   *)
(* Integer kinds are the 8 and 16 bit ones: the wider kinds follow the     *)
(* same code path but their wrap-around does not fit the checker's ints.   *)
(***************************************************************************)
EXTENDS Integers, Sequences, FiniteSets, TLC

(* ----------------------------- bounds ---------------------------------- *)

\* largest Count the result set of one query reports
MaxRecords == 2

\* the goroutines that call Query, each once
Procs == {1, 2}

(* ------------------------- Go values and kinds ------------------------- *)

Digits == <<"0", "1", "2", "3", "4", "5", "6", "7", "8", "9">>

IsDigit(c) == \E d \in 1..10 : Digits[d] = c

DigitVal(c) == (CHOOSE d \in 1..10 : Digits[d] = c) - 1

RECURSIVE Atoi(_)
\* the value of a tuple of digits, most significant first
Atoi(s) ==
  IF s = <<>> THEN 0
  ELSE 10 * Atoi(SubSeq(s, 1, Len(s) - 1)) + DigitVal(s[Len(s)])

AllDigits(s) == \A k \in 1..Len(s) : IsDigit(s[k])

RECURSIVE Pow2(_)
Pow2(w) == IF w = 0 THEN 1 ELSE 2 * Pow2(w - 1)

IntKinds == {"int8", "int16"}
UintKinds == {"uint8", "uint16"}

Width(kind) == IF kind \in {"int8", "uint8"} THEN 8 ELSE 16

\* a Go value: k names its kind, and one of n, s, b, t carries it
GoVal(k, n, s, b, t) == [k |-> k, n |-> n, s |-> s, b |-> b, t |-> t]

\* time.Time{}: January 1, year 1, 00:00:00 UTC
ZeroTime == <<1, 1, 1, 0, 0, 0, 0, 0>>

\* the zero value of a (non-pointer) kind
ZeroOf(kind) ==
  GoVal(kind, 0, <<>>, FALSE, IF kind = "time" THEN ZeroTime ELSE <<>>)

\* a struct field's content: a pointer field is nil or points at val
FieldVal(isPtr, isNil, val) == [isPtr |-> isPtr, isNil |-> isNil, val |-> val]

\* the zero value of a field: nil for a pointer field
ZeroField(fd) == FieldVal(fd.isPtr, fd.isPtr, ZeroOf(fd.kind))

\* reflect.New(elemType).Elem(): every field at its zero value
ZeroEntity(T) == [k \in 1..Len(T) |-> ZeroField(T[k])]

(* ------------------------------- errors -------------------------------- *)

Err(kind, name, type, reason, text, pos) ==
  [kind |-> kind, name |-> name, type |-> type, reason |-> reason,
   text |-> text, pos |-> pos]

NilErr == Err("nil", "", "", "", <<>>, 0)

ErrInvalidEntityType == Err("invalid", "", "", "wmi: invalid entity type", <<>>, 0)

ErrFieldMismatch(type, name, reason) == Err("mismatch", name, type, reason, <<>>, 0)

\* *strconv.NumError of strconv.ParseInt
NumError(sv) == Err("parse", "", "strconv.ParseInt", "invalid syntax", sv, 0)

\* *time.ParseError of time.Parse
TimeParseError(sv) == Err("parse", "", "time.Parse", "cannot parse", sv, 0)

\* the error of a failed call op of the OLE layer; pos is the position asked
\* of ItemIndex
OleError(op, pos) == Err("transport", op, "", "ole error", <<>>, pos)

\* a run-time panic of package reflect
ReflectPanic(name) == Err("panic", name, "", "reflect: Set using unexported field", <<>>, 0)

IsMismatch(e) == e.kind = "mismatch"

(* --------------------------- source values ----------------------------- *)

\* what VARIANT.Value() yields: an int64, a string, a bool, nil, or a value
\* of another type (an *ole.IDispatch)
IntV(n) == GoVal("int64", n, <<>>, FALSE, <<>>)
StrV(s) == GoVal("string", 0, s, FALSE, <<>>)
BoolV(b) == GoVal("bool", 0, <<>>, b, <<>>)
NullV == GoVal("nil", 0, <<>>, FALSE, <<>>)
OtherV == GoVal("ptr", 0, <<>>, FALSE, <<>>)

\* a source object (SWbemObject): its properties, each [name, val]
Prop(name, val) == [name |-> name, val |-> val]

HasProperty(obj, n) == \E q \in obj : q.name = n

PropertyOf(obj, n) == (CHOOSE q \in obj : q.name = n).val

(* ----------------------- strconv and time parsing ---------------------- *)

\* strconv.ParseInt(sv, 10, 64): an optional sign, then one or more digits
ParseInt(sv) ==
  LET signed == sv # <<>> /\ sv[1] \in {"+", "-"}
      body == IF signed THEN Tail(sv) ELSE sv
  IN  IF body # <<>> /\ AllDigits(body)
      THEN [ok |-> TRUE, n |-> IF signed /\ sv[1] = "-" THEN -Atoi(body) ELSE Atoi(body)]
      ELSE [ok |-> FALSE, n |-> 0]

IsLeap(y) == (y % 4 = 0) /\ ((y % 100 # 0) \/ (y % 400 = 0))

DaysIn(m, y) ==
  IF m = 2 THEN (IF IsLeap(y) THEN 29 ELSE 28)
  ELSE IF m \in {4, 6, 9, 11} THEN 30 ELSE 31

\* time.Parse("20060102150405.000000-0700", sv): four digits of year, two of
\* month, day, hour, minute and second, a point and six digits, a sign and
\* four digits of zone offset, and nothing after them
TimeParse(sv) ==
  LET layout == /\ Len(sv) = 26
                /\ AllDigits(SubSeq(sv, 1, 14))
                /\ sv[15] = "."
                /\ AllDigits(SubSeq(sv, 16, 21))
                /\ sv[22] \in {"+", "-"}
                /\ AllDigits(SubSeq(sv, 23, 26))
      year == Atoi(SubSeq(sv, 1, 4))
      month == Atoi(SubSeq(sv, 5, 6))
      day == Atoi(SubSeq(sv, 7, 8))
      hour == Atoi(SubSeq(sv, 9, 10))
      min == Atoi(SubSeq(sv, 11, 12))
      sec == Atoi(SubSeq(sv, 13, 14))
      micro == Atoi(SubSeq(sv, 16, 21))
      off == 60 * Atoi(SubSeq(sv, 23, 24)) + Atoi(SubSeq(sv, 25, 26))
      inRange == /\ month \in 1..12
                 /\ day \in 1..DaysIn(month, year)
                 /\ hour < 24 /\ min < 60 /\ sec < 60
  IN  IF layout /\ inRange
      THEN [ok |-> TRUE,
            t |-> <<year, month, day, hour, min, sec, micro,
                    IF sv[22] = "-" THEN -off ELSE off>>]
      ELSE [ok |-> FALSE, t |-> ZeroTime]

(* ------------------------------ loadEntity ----------------------------- *)

\* Value.SetInt on a signed kind: the low Width bits, two's complement
SetInt(kind, iv) ==
  LET m == Pow2(Width(kind))
      h == Pow2(Width(kind) - 1)
  IN  GoVal(kind, ((iv + h) % m) - h, <<>>, FALSE, <<>>)

\* Value.SetUint(uint64(iv)) on an unsigned kind: the low Width bits
SetUint(kind, iv) == GoVal(kind, iv % Pow2(Width(kind)), <<>>, FALSE, <<>>)

\* TimeLiteral padding the texts of 24 characters instead
TimeLiteral_Pad24(sv) ==
  IF Len(sv) = 24
  THEN SubSeq(sv, 1, 22) \o <<"0">> \o SubSeq(sv, 23, Len(sv))
  ELSE sv

\* the text handed to time.Parse for the source text sv
TimeLiteral(sv) ==
  IF Len(sv) = 25
  THEN SubSeq(sv, 1, 22) \o <<"0">> \o SubSeq(sv, 23, Len(sv))
  ELSE sv

\* the state of the field walk: the entity being filled, the named result
\* errFieldMismatch, whether the function has returned and with what, and
\* the texts handed to time.Parse
Walk(ent, mism, stop, res, lits) ==
  [ent |-> ent, mism |-> mism, stop |-> stop, ret |-> res, lits |-> lits]

\* a write through f: into the field, or into what the pointer field points at
SetField(w, idx, fd, val) ==
  [w EXCEPT !.ent[idx] = FieldVal(fd.isPtr, FALSE, val)]

Return(w, e) == [w EXCEPT !.stop = TRUE, !.ret = e]

\* Mismatch recording the mismatch and going on to the next field
Mismatch_Continue(w, fd, reason) ==
  [w EXCEPT !.mism = ErrFieldMismatch(fd.kind, fd.name, reason)]

\* return &ErrFieldMismatch{f.Type(), n, reason}
Mismatch(w, fd, reason) == Return(w, ErrFieldMismatch(fd.kind, fd.name, reason))

\* MissingProperty returning the mismatch at once
MissingProperty_Return(w, fd) ==
  [w EXCEPT !.stop = TRUE,
            !.ret = ErrFieldMismatch(fd.kind, fd.name, "no such struct field")]

\* oleutil.GetProperty failed: errFieldMismatch is set and the walk goes on
MissingProperty(w, fd) ==
  [w EXCEPT !.mism = ErrFieldMismatch(fd.kind, fd.name, "no such struct field")]

\* AllocPtr leaving the pointer field nil until a value is written
AllocPtr_Lazy(w, idx, fd) == w

\* a pointer field is set to a new zero value, and f is what it points at
AllocPtr(w, idx, fd) ==
  IF fd.isPtr THEN [w EXCEPT !.ent[idx] = FieldVal(TRUE, FALSE, ZeroOf(fd.kind))] ELSE w

\* the switch on the kind of the source value
LoadValue(w, idx, fd, val) ==
  CASE val.k = "int64" ->
         IF fd.kind \in IntKinds THEN SetField(w, idx, fd, SetInt(fd.kind, val.n))
         ELSE IF fd.kind \in UintKinds THEN SetField(w, idx, fd, SetUint(fd.kind, val.n))
         ELSE Mismatch(w, fd, "not an integer class")
    [] val.k = "string" ->
         LET p == ParseInt(val.s)
             lit == TimeLiteral(val.s)
             t == TimeParse(lit)
         IN  CASE fd.kind = "string" -> SetField(w, idx, fd, GoVal("string", 0, val.s, FALSE, <<>>))
               [] fd.kind \in IntKinds ->
                    IF ~p.ok THEN Return(w, NumError(val.s))
                    ELSE SetField(w, idx, fd, SetInt(fd.kind, p.n))
               [] fd.kind \in UintKinds ->
                    IF ~p.ok THEN Return(w, NumError(val.s))
                    ELSE SetField(w, idx, fd, SetUint(fd.kind, p.n))
               [] fd.kind = "time" ->
                    LET w2 == [w EXCEPT !.lits = Append(@, [name |-> fd.name, arg |-> lit])]
                    IN  IF ~t.ok THEN Return(w2, TimeParseError(lit))
                        ELSE SetField(w2, idx, fd, GoVal("time", 0, <<>>, FALSE, t.t))
               [] OTHER -> w
    [] val.k = "bool" ->
         IF fd.kind = "bool" THEN SetField(w, idx, fd, GoVal("bool", 0, <<>>, val.b, <<>>))
         ELSE Mismatch(w, fd, "not a bool")
    [] OTHER ->
         IF fd.isPtr /\ val.k = "nil" THEN w
         ELSE Mismatch(w, fd, "unsupported type")

\* one turn of the loop over the fields of the destination struct
LoadField(w, idx, fd, obj) ==
  IF w.stop THEN w
  ELSE IF fd.isPtr /\ ~fd.exported THEN Return(w, ReflectPanic(fd.name))
  ELSE LET w1 == AllocPtr(w, idx, fd)
       IN  IF ~fd.exported THEN Mismatch(w1, fd, "CanSet() is false")
           ELSE IF ~HasProperty(obj, fd.name) THEN MissingProperty(w1, fd)
           ELSE LoadValue(w1, idx, fd, PropertyOf(obj, fd.name))

RECURSIVE WalkFields(_, _, _)
\* the walk after the first n fields of T
WalkFields(T, obj, n) ==
  IF n = 0 THEN Walk(ZeroEntity(T), NilErr, FALSE, NilErr, <<>>)
  ELSE LoadField(WalkFields(T, obj, n - 1), n, T[n], obj)

\* loadEntity(dst, src) for dst a pointer to a zero struct of type T: the
\* struct it leaves, the error it returns, the texts it had parsed as times
loadEntity(T, obj) ==
  LET w == WalkFields(T, obj, Len(T))
  IN  [ent |-> w.ent, err |-> IF w.stop THEN w.ret ELSE w.mism, lits |-> w.lits]

(* --------------------- destination types and sources ------------------- *)

\* a field of a destination struct type
Field(name, kind, isPtr, exported) ==
  [name |-> name, kind |-> kind, isPtr |-> isPtr, exported |-> exported]

\* type Win32_Process struct { Name string; HandleCount uint16;
\*                             CreationDate *time.Time }
Win32_Process ==
  << Field("Name", "string", FALSE, TRUE),
     Field("HandleCount", "uint16", FALSE, TRUE),
     Field("CreationDate", "time", TRUE, TRUE) >>

\* struct { HandleCount int8; CreationDate time.Time; Name *string }
ProcessByCount ==
  << Field("HandleCount", "int8", FALSE, TRUE),
     Field("CreationDate", "time", FALSE, TRUE),
     Field("Name", "string", TRUE, TRUE) >>

\* struct { Name bool; HandleCount *uint8; CreationDate float64 }
ProcessFlags ==
  << Field("Name", "bool", FALSE, TRUE),
     Field("HandleCount", "uint8", TRUE, TRUE),
     Field("CreationDate", "float64", FALSE, TRUE) >>

\* struct { Name string; handleCount int16; CreationDate *time.Time }
ProcessHidden ==
  << Field("Name", "string", FALSE, TRUE),
     Field("handleCount", "int16", FALSE, FALSE),
     Field("CreationDate", "time", TRUE, TRUE) >>

\* struct { Name string; handleCount *int16; CreationDate time.Time }
ProcessHiddenPtr ==
  << Field("Name", "string", FALSE, TRUE),
     Field("handleCount", "int16", TRUE, FALSE),
     Field("CreationDate", "time", FALSE, TRUE) >>

\* struct { CreationDate string; HandleCount int16; Name string }
ProcessText ==
  << Field("CreationDate", "string", FALSE, TRUE),
     Field("HandleCount", "int16", FALSE, TRUE),
     Field("Name", "string", FALSE, TRUE) >>

Date14 == <<"2", "0", "1", "4", "0", "1", "0", "2", "0", "3", "0", "4", "0", "5">>

\* "20140102030405.123456+060", the 25 characters WMI sends
Date25 == Date14 \o <<".", "1", "2", "3", "4", "5", "6", "+", "0", "6", "0">>

\* "20140102030405.12345+060", 24 characters
Date24 == Date14 \o <<".", "1", "2", "3", "4", "5", "+", "0", "6", "0">>

\* "20140102030405.123456+0100", 26 characters
Date26 == Date14 \o <<".", "1", "2", "3", "4", "5", "6", "+", "0", "1", "0", "0">>

\* "20141302030405.123456+060", 25 characters, month 13
Date25Bad == <<"2", "0", "1", "4", "1", "3", "0", "2", "0", "3", "0", "4", "0", "5">>
             \o <<".", "1", "2", "3", "4", "5", "6", "+", "0", "6", "0">>

Absent == {}

NameProps ==
  {Absent} \cup {{Prop("Name", v)} : v \in {StrV(<<"a", "b">>), BoolV(TRUE), IntV(5)}}

CountProps ==
  {Absent} \cup {{Prop("HandleCount", v)} :
                   v \in {IntV(7), IntV(300), IntV(-1), StrV(<<"4", "2">>),
                          StrV(<<"4", "x">>), BoolV(FALSE), NullV}}

DateProps ==
  {Absent} \cup {{Prop("CreationDate", v)} :
                   v \in {StrV(Date25), StrV(Date24), StrV(Date26), StrV(Date25Bad),
                          NullV, OtherV}}

\* the structs and source objects loadEntity is applied to on its own
LoadTypes ==
  {Win32_Process, ProcessByCount, ProcessFlags, ProcessHidden, ProcessHiddenPtr,
   ProcessText}

LoadSources == {n \cup c \cup d : n \in NameProps, c \in CountProps, d \in DateProps}

\* an object that binds to Win32_Process without a mismatch
objGood ==
  {Prop("Name", StrV(<<"a", "b">>)), Prop("HandleCount", IntV(7)),
   Prop("CreationDate", StrV(Date25))}

\* another one that binds to Win32_Process without a mismatch
objGood2 ==
  {Prop("Name", StrV(<<"e">>)), Prop("HandleCount", StrV(<<"4", "2">>)),
   Prop("CreationDate", NullV)}

\* no HandleCount and no CreationDate property
objSparse == {Prop("Name", StrV(<<"c">>))}

\* Name is a boolean
objBoolName ==
  {Prop("Name", BoolV(TRUE)), Prop("HandleCount", IntV(9)),
   Prop("CreationDate", StrV(Date25))}

\* CreationDate does not parse
objBadDate ==
  {Prop("Name", StrV(<<"d">>)), Prop("HandleCount", IntV(3)),
   Prop("CreationDate", StrV(Date24))}

\* the result sets are made of these objects, each known by its handle
QueryObjects == {"good", "good2", "sparse", "boolName", "badDate"}

\* the properties of the object behind a handle
Properties(h) ==
  CASE h = "good" -> objGood
    [] h = "good2" -> objGood2
    [] h = "sparse" -> objSparse
    [] h = "boolName" -> objBoolName
    [] h = "badDate" -> objBadDate
    [] OTHER -> {}

(* ------------------------------ checkMultiArg -------------------------- *)

multiArgTypeInvalid == 0
multiArgTypeStruct == 1
multiArgTypeStructPtr == 2

\* the fields of the struct type of a name
Fields(T) == IF T = "Win32_Process" THEN Win32_Process ELSE <<>>

\* the shape of the dst argument, as package reflect shows it: whether it is
\* a pointer and a nil one, the kind of what it points at (or of dst itself),
\* the kind of a slice's elements and of what a pointer element points at,
\* and the name of the struct type at the bottom
Shape(isPtr, isNil, kind, elemKind, ptrElemKind, type) ==
  [isPtr |-> isPtr, isNil |-> isNil, kind |-> kind, elemKind |-> elemKind,
   ptrElemKind |-> ptrElemKind, type |-> type]

\* checkMultiArg without the test that a pointer element points at a struct
checkMultiArg_NoElemCheck(v) ==
  IF v.kind # "slice" THEN [m |-> multiArgTypeInvalid, elemType |-> ""]
  ELSE CASE v.elemKind = "struct" -> [m |-> multiArgTypeStruct, elemType |-> v.type]
         [] v.elemKind = "ptr" -> [m |-> multiArgTypeStructPtr, elemType |-> v.type]
         [] OTHER -> [m |-> multiArgTypeInvalid, elemType |-> ""]

\* checkMultiArg(v) for v the value dst points at
checkMultiArg(v) ==
  IF v.kind # "slice" THEN [m |-> multiArgTypeInvalid, elemType |-> ""]
  ELSE CASE v.elemKind = "struct" -> [m |-> multiArgTypeStruct, elemType |-> v.type]
         [] v.elemKind = "ptr" /\ v.ptrElemKind = "struct" ->
              [m |-> multiArgTypeStructPtr, elemType |-> v.type]
         [] OTHER -> [m |-> multiArgTypeInvalid, elemType |-> ""]

\* the first lines of Query: the multiArgType and element type of dst, or
\* multiArgTypeInvalid, with which Query returns ErrInvalidEntityType
validate(dv) ==
  IF ~dv.isPtr \/ dv.isNil THEN [m |-> multiArgTypeInvalid, elemType |-> ""]
  ELSE checkMultiArg(dv)

\* var dst []T; &dst          and          var dst []*T; &dst
SliceOfStruct(T) == Shape(TRUE, FALSE, "slice", "struct", "", T)
SliceOfStructPtr(T) == Shape(TRUE, FALSE, "slice", "ptr", "struct", T)

\* the element types of the queries
QueryTypes == {"Win32_Process"}

DstShapes ==
  {SliceOfStruct(T) : T \in QueryTypes} \cup {SliceOfStructPtr(T) : T \in QueryTypes}
  \cup { Shape(FALSE, FALSE, "slice", "struct", "", "Win32_Process"),  \* dst, not &dst
         Shape(TRUE, TRUE, "slice", "struct", "", "Win32_Process"),    \* (*[]T)(nil)
         Shape(TRUE, FALSE, "struct", "", "", "Win32_Process"),        \* *T
         Shape(TRUE, FALSE, "slice", "int", "", ""),                   \* *[]int
         Shape(TRUE, FALSE, "slice", "ptr", "int", "") }               \* *[]*int

\* an element of the destination slice
Elem(isRef, ent) == [ref |-> isRef, ent |-> ent]

\* what dst points at may hold before the call: a destination of struct
\* elements starts empty (var dst []T), a slice of anything else may hold
\* an element
Contents(s) ==
  IF s.kind = "slice" /\ s.elemKind # "struct" /\ s.ptrElemKind # "struct"
  THEN {<<>>, <<Elem(s.elemKind = "ptr", <<>>)>>}
  ELSE {<<>>}

(* --------------------------------- state ------------------------------- *)

VARIABLES
  lock,              \* the mutex: 0, or the goroutine holding it
  pc,                \* where each goroutine is in Query
  shape,             \* its dst argument
  dst0,              \* what the slice held at the call
  dst,               \* what the slice holds
  mat,               \* mat and elemType of Query
  elemType,
  pinned,            \* runtime.LockOSThread is in effect
  coinit,            \* COM is initialized on the thread
  held,              \* the COM objects the call holds: unknown, wmi, service, result, item
  defers,            \* the deferred calls, oldest first
  count,             \* count and i of Query
  i,
  item,              \* the handle of the object of the current position
  errFieldMismatch,  \* errFieldMismatch of Query
  ret,               \* the error Query returned
  src,               \* the handles ItemIndex has handed out, by position
  acts,              \* the calls made outside the function so far
  oleErr,            \* the error the OLE layer raised in this call
  bindPc,            \* loadEntity on its own: its position,
  bindT,             \*   destination type,
  bindSrc,           \*   source object
  bindOut            \*   and result

queryVars ==
  <<lock, pc, shape, dst0, dst, mat, elemType, pinned, coinit, held, defers,
    count, i, item, errFieldMismatch, ret, src, acts, oleErr>>

bindVars == <<bindPc, bindT, bindSrc, bindOut>>

vars == <<queryVars, bindVars>>

NoOutcome == [ent |-> <<>>, err |-> NilErr, lits |-> <<>>]

QueryInit ==
  /\ lock = 0
  /\ pc = [p \in Procs |-> "idle"]
  /\ shape = [p \in Procs |-> Shape(FALSE, FALSE, "", "", "", "")]
  /\ dst0 = [p \in Procs |-> <<>>]
  /\ dst = [p \in Procs |-> <<>>]
  /\ mat = [p \in Procs |-> multiArgTypeInvalid]
  /\ elemType = [p \in Procs |-> ""]
  /\ pinned = [p \in Procs |-> FALSE]
  /\ coinit = [p \in Procs |-> FALSE]
  /\ held = [p \in Procs |-> {}]
  /\ defers = [p \in Procs |-> <<>>]
  /\ count = [p \in Procs |-> 0]
  /\ i = [p \in Procs |-> 0]
  /\ item = [p \in Procs |-> ""]
  /\ errFieldMismatch = [p \in Procs |-> NilErr]
  /\ ret = [p \in Procs |-> NilErr]
  /\ src = [p \in Procs |-> <<>>]
  /\ acts = [p \in Procs |-> {}]
  /\ oleErr = [p \in Procs |-> NilErr]

BindOff ==
  /\ bindPc = "off"
  /\ bindT = <<>>
  /\ bindSrc = {}
  /\ bindOut = NoOutcome

Init == QueryInit /\ BindOff

(* --------------------------------- Query ------------------------------- *)

\* Query is called: dst is validated, and the call either returns
\* ErrInvalidEntityType or goes on to take the lock
Call(p) ==
  /\ pc[p] = "idle"
  /\ \E s \in DstShapes : \E c \in Contents(s) :
       LET v == validate(s)
       IN  /\ shape' = [shape EXCEPT ![p] = s]
           /\ dst0' = [dst0 EXCEPT ![p] = c]
           /\ dst' = [dst EXCEPT ![p] = c]
           /\ mat' = [mat EXCEPT ![p] = v.m]
           /\ elemType' = [elemType EXCEPT ![p] = v.elemType]
           /\ IF v.m = multiArgTypeInvalid
              THEN /\ pc' = [pc EXCEPT ![p] = "done"]
                   /\ ret' = [ret EXCEPT ![p] = ErrInvalidEntityType]
              ELSE /\ pc' = [pc EXCEPT ![p] = "lock"]
                   /\ ret' = ret
  /\ UNCHANGED <<lock, pinned, coinit, held, defers, count, i, item,
                 errFieldMismatch, src, acts, oleErr, bindVars>>

\* Lock without the wait for the mutex to be free
Lock_NoWait(p) ==
  /\ pc[p] = "lock"
  /\ lock' = p
  /\ pinned' = [pinned EXCEPT ![p] = TRUE]
  /\ coinit' = [coinit EXCEPT ![p] = TRUE]
  /\ defers' = [defers EXCEPT ![p] =
                  <<"lock.Unlock", "runtime.UnlockOSThread", "ole.CoUninitialize">>]
  /\ acts' = [acts EXCEPT ![p] = @ \cup {"Lock", "LockOSThread", "CoInitializeEx"}]
  /\ pc' = [pc EXCEPT ![p] = "create"]
  /\ UNCHANGED <<shape, dst0, dst, mat, elemType, held, count, i, item,
                 errFieldMismatch, ret, src, oleErr, bindVars>>

\* lock.Lock(), runtime.LockOSThread(), ole.CoInitializeEx(0, 0), each with
\* its deferred undoing
Lock(p) ==
  /\ pc[p] = "lock"
  /\ lock = 0
  /\ lock' = p
  /\ pinned' = [pinned EXCEPT ![p] = TRUE]
  /\ coinit' = [coinit EXCEPT ![p] = TRUE]
  /\ defers' = [defers EXCEPT ![p] =
                  <<"lock.Unlock", "runtime.UnlockOSThread", "ole.CoUninitialize">>]
  /\ acts' = [acts EXCEPT ![p] = @ \cup {"Lock", "LockOSThread", "CoInitializeEx"}]
  /\ pc' = [pc EXCEPT ![p] = "create"]
  /\ UNCHANGED <<shape, dst0, dst, mat, elemType, held, count, i, item,
                 errFieldMismatch, ret, src, oleErr, bindVars>>

\* Releases with the release of the result set left out
Releases_NoResult(d) ==
  CASE d = "unknown.Release" -> {"unknown"}
    [] d = "wmi.Release" -> {"wmi"}
    [] d = "service.Release" -> {"service"}
    [] d = "item.Release" -> {"item"}
    [] OTHER -> {}

\* the COM object a deferred Release call releases
Releases(d) ==
  CASE d = "unknown.Release" -> {"unknown"}
    [] d = "wmi.Release" -> {"wmi"}
    [] d = "service.Release" -> {"service"}
    [] d = "result.Release" -> {"result"}
    [] d = "item.Release" -> {"item"}
    [] OTHER -> {}

Deferred(ds) == {ds[k] : k \in 1..Len(ds)}

\* a return of Query with error e: the deferred calls ds run
Unwind(p, e, ds) ==
  /\ held' = [held EXCEPT ![p] = @ \ UNION {Releases(d) : d \in Deferred(ds)}]
  /\ coinit' = [coinit EXCEPT ![p] = @ /\ "ole.CoUninitialize" \notin Deferred(ds)]
  /\ pinned' = [pinned EXCEPT ![p] = @ /\ "runtime.UnlockOSThread" \notin Deferred(ds)]
  /\ lock' = IF "lock.Unlock" \in Deferred(ds) /\ lock = p THEN 0 ELSE lock
  /\ defers' = [defers EXCEPT ![p] = <<>>]
  /\ ret' = [ret EXCEPT ![p] = e]
  /\ pc' = [pc EXCEPT ![p] = "done"]

\* a call op of the OLE layer that yields the object h: on success Query
\* holds h and defers its release, on failure Query returns the error
OleObject(p, at, op, h, next) ==
  /\ pc[p] = at
  /\ acts' = [acts EXCEPT ![p] = @ \cup {op}]
  /\ \/ /\ held' = [held EXCEPT ![p] = @ \cup {h}]
        /\ defers' = [defers EXCEPT ![p] = Append(@, h \o ".Release")]
        /\ pc' = [pc EXCEPT ![p] = next]
        /\ UNCHANGED <<lock, pinned, coinit, ret, oleErr>>
     \/ /\ Unwind(p, OleError(op, 0), defers[p])
        /\ oleErr' = [oleErr EXCEPT ![p] = OleError(op, 0)]
  /\ UNCHANGED <<shape, dst0, dst, mat, elemType, count, i, item,
                 errFieldMismatch, src, bindVars>>

CreateObject(p) == OleObject(p, "create", "CreateObject", "unknown", "queryInterface")

QueryInterface(p) == OleObject(p, "queryInterface", "QueryInterface", "wmi", "connect")

ConnectServer(p) == OleObject(p, "connect", "ConnectServer", "service", "exec")

ExecQuery(p) == OleObject(p, "exec", "ExecQuery", "result", "count")

\* count, err := oleInt64(result, "Count")
Count(p) ==
  /\ pc[p] = "count"
  /\ acts' = [acts EXCEPT ![p] = @ \cup {"Count"}]
  /\ \/ /\ \E n \in 0..MaxRecords : count' = [count EXCEPT ![p] = n]
        /\ i' = [i EXCEPT ![p] = 0]
        /\ pc' = [pc EXCEPT ![p] = "loop"]
        /\ UNCHANGED <<lock, pinned, coinit, held, defers, ret, oleErr>>
     \/ /\ Unwind(p, OleError("Count", 0), defers[p])
        /\ oleErr' = [oleErr EXCEPT ![p] = OleError("Count", 0)]
        /\ UNCHANGED <<count, i>>
  /\ UNCHANGED <<shape, dst0, dst, mat, elemType, item, errFieldMismatch, src,
                 bindVars>>

\* ItemIndexFailed taken as no reason to stop: the position is skipped
ItemIndexFailed_Skip(p) ==
  /\ i' = [i EXCEPT ![p] = @ + 1]
  /\ oleErr' = [oleErr EXCEPT ![p] = OleError("ItemIndex", i[p])]
  /\ UNCHANGED <<lock, pc, pinned, coinit, held, defers, ret, item, src>>

\* ItemIndex failed: the function literal returns err, and so does Query
ItemIndexFailed(p) ==
  /\ Unwind(p, OleError("ItemIndex", i[p]), defers[p])
  /\ oleErr' = [oleErr EXCEPT ![p] = OleError("ItemIndex", i[p])]
  /\ UNCHANGED <<item, src, i>>

\* itemRaw, err := oleutil.CallMethod(result, "ItemIndex", i), with the
\* deferred item.Release()
ItemIndex(p) ==
  /\ pc[p] = "loop"
  /\ i[p] < count[p]
  /\ acts' = [acts EXCEPT ![p] = @ \cup {"ItemIndex"}]
  /\ \/ /\ \E o \in QueryObjects :
             /\ item' = [item EXCEPT ![p] = o]
             /\ src' = [src EXCEPT ![p] = Append(@, o)]
        /\ held' = [held EXCEPT ![p] = @ \cup {"item"}]
        /\ defers' = [defers EXCEPT ![p] = Append(@, "item.Release")]
        /\ pc' = [pc EXCEPT ![p] = "bind"]
        /\ UNCHANGED <<lock, pinned, coinit, ret, oleErr, i>>
     \/ ItemIndexFailed(p)
  /\ UNCHANGED <<shape, dst0, dst, mat, elemType, count, errFieldMismatch,
                 bindVars>>

\* Aggregate keeping the first mismatch instead of the last
Aggregate_KeepFirst(old, e) == IF IsMismatch(e) /\ old = NilErr THEN e ELSE old

\* the error kept across the loop, given the error of one loadEntity call
Aggregate(old, e) == IF IsMismatch(e) THEN e ELSE old

\* AppendTo putting the new element first
AppendTo_Front(dv, ev) == <<ev>> \o dv

\* dv.Set(reflect.Append(dv, ev))
AppendTo(dv, ev) == Append(dv, ev)

\* the rest of the loop body: loadEntity, the append to dst, the release of
\* the item, and either the next turn or the return of a hard error
Bind(p) ==
  /\ pc[p] = "bind"
  /\ LET out == loadEntity(Fields(elemType[p]), Properties(item[p]))
     IN  IF out.err.kind \in {"nil", "mismatch"}
         THEN /\ errFieldMismatch' =
                   [errFieldMismatch EXCEPT ![p] = Aggregate(@, out.err)]
              /\ dst' = [dst EXCEPT ![p] =
                           AppendTo(@, Elem(mat[p] = multiArgTypeStructPtr, out.ent))]
              /\ held' = [held EXCEPT ![p] = @ \ Releases(defers[p][Len(defers[p])])]
              /\ defers' = [defers EXCEPT ![p] = SubSeq(@, 1, Len(@) - 1)]
              /\ i' = [i EXCEPT ![p] = @ + 1]
              /\ pc' = [pc EXCEPT ![p] = "loop"]
              /\ UNCHANGED <<lock, pinned, coinit, ret>>
         ELSE /\ Unwind(p, out.err, defers[p])
              /\ UNCHANGED <<errFieldMismatch, dst, i>>
  /\ UNCHANGED <<shape, dst0, mat, elemType, count, item, src, acts, oleErr,
                 bindVars>>

\* the loop is over: return errFieldMismatch
Finish(p) ==
  /\ pc[p] = "loop"
  /\ i[p] >= count[p]
  /\ Unwind(p, errFieldMismatch[p], defers[p])
  /\ UNCHANGED <<shape, dst0, dst, mat, elemType, count, i, item,
                 errFieldMismatch, src, acts, oleErr, bindVars>>

Next ==
  \E p \in Procs :
    \/ Call(p)
    \/ Lock(p)
    \/ CreateObject(p)
    \/ QueryInterface(p)
    \/ ConnectServer(p)
    \/ ExecQuery(p)
    \/ Count(p)
    \/ ItemIndex(p)
    \/ Bind(p)
    \/ Finish(p)

Spec == Init /\ [][Next]_vars

(* ------------------------- loadEntity on its own ----------------------- *)

LoadInit ==
  /\ QueryInit
  /\ bindPc = "ready"
  /\ bindT \in LoadTypes
  /\ bindSrc \in LoadSources
  /\ bindOut = NoOutcome

\* loadEntity(dst, src) is called with dst a new(T)
Load ==
  /\ bindPc = "ready"
  /\ bindOut' = loadEntity(bindT, bindSrc)
  /\ bindPc' = "loaded"
  /\ UNCHANGED <<bindT, bindSrc, queryVars>>

LoadNext == Load

LoadSpec == LoadInit /\ [][LoadNext]_vars

(* ================================ claims =============================== *)

\* dst is a non-nil pointer to a slice of structs or of pointers to structs
ValidDst(s) ==
  /\ s.isPtr /\ ~s.isNil /\ s.kind = "slice"
  /\ \/ s.elemKind = "struct"
     \/ s.elemKind = "ptr" /\ s.ptrElemKind = "struct"

\* the connection was made, the query executed and its Count read
Iterating(p) == "Count" \in acts[p]

\* loadEntity into a Win32_Process for every source object of the queries
Loaded ==
  [good |-> loadEntity(Win32_Process, objGood),
   good2 |-> loadEntity(Win32_Process, objGood2),
   sparse |-> loadEntity(Win32_Process, objSparse),
   boolName |-> loadEntity(Win32_Process, objBoolName),
   badDate |-> loadEntity(Win32_Process, objBadDate)]

\* the binding of the source object at position k (from 1) as an element of dst
Binding(p, k) == Elem(shape[p].elemKind = "ptr", Loaded[src[p][k]].ent)

\* the error loadEntity gives for the source object at position k
BindErr(p, k) == Loaded[src[p][k]].err

\* every position of the result set was fetched, and no call of the OLE layer failed
FetchedAll(p) == Iterating(p) /\ oleErr[p] = NilErr /\ Len(src[p]) = count[p]

InQuery == {"create", "queryInterface", "connect", "exec", "count", "loop", "bind"}

\* C1: a call with a valid, initially empty destination, whose result set of N
\* objects is fetched without failure and binds without mismatch or hard
\* error, returns nil and leaves exactly N elements in dst, the element at
\* position k being the binding of the source object at position k.
C1_WellFormedResultSet ==
  \A p \in Procs :
    ( /\ pc[p] = "done" /\ ValidDst(shape[p]) /\ dst0[p] = <<>>
      /\ FetchedAll(p)
      /\ \A k \in 1..Len(src[p]) : BindErr(p, k) = NilErr )
    => /\ ret[p] = NilErr
       /\ Len(dst[p]) = count[p]
       /\ \A k \in 1..count[p] : dst[p][k] = Binding(p, k)

\* two different objects were bound in order, into a slice of structs by one
\* call and into a slice of pointers by the other
C1_Witness ==
  /\ \A p \in Procs :
       /\ pc[p] = "done" /\ ret[p] = NilErr /\ count[p] = 2
       /\ src[p] = <<"good2", "good">> /\ Len(dst[p]) = 2
  /\ \E p \in Procs : shape[p].elemKind = "struct"
  /\ \E p \in Procs : shape[p].elemKind = "ptr"

\* C2: a call whose dst is not a valid destination returns
\* ErrInvalidEntityType at once: it never takes the lock, pins the thread,
\* initializes COM or calls the OLE layer, holds nothing, and leaves what dst
\* points at as it was.
C2_InvalidDestination ==
  \A p \in Procs :
    (pc[p] # "idle" /\ ~ValidDst(shape[p]))
    => /\ pc[p] = "done"
       /\ ret[p] = ErrInvalidEntityType
       /\ acts[p] = {}
       /\ lock # p /\ ~pinned[p] /\ ~coinit[p] /\ held[p] = {}
       /\ dst[p] = dst0[p]

\* a *[]*int holding an element was refused while the other call was iterating
C2_Witness ==
  \E p, q \in Procs :
    /\ pc[p] = "done" /\ shape[p].ptrElemKind = "int" /\ dst0[p] # <<>>
    /\ ret[p] = ErrInvalidEntityType
    /\ pc[q] = "bind"

\* C3: when the fetch of the object at position k fails, Query returns that
\* very error (whatever mismatch earlier objects gave), positions 0..k-1 are
\* the only ones fetched, and dst holds exactly their k bindings, in order.
C3_FetchFailure ==
  \A p \in Procs :
    (oleErr[p].kind = "transport" /\ oleErr[p].name = "ItemIndex")
    => /\ pc[p] = "done"
       /\ ret[p] = oleErr[p]
       /\ oleErr[p].pos < count[p]
       /\ Len(src[p]) = oleErr[p].pos
       /\ Len(dst[p]) = oleErr[p].pos
       /\ \A k \in 1..Len(dst[p]) : dst[p][k] = Binding(p, k)

\* the fetch at position 1 of 2 failed after the object at position 0 had
\* given a mismatch
C3_Witness ==
  \E p \in Procs :
    /\ pc[p] = "done" /\ count[p] = 2
    /\ oleErr[p] = OleError("ItemIndex", 1)
    /\ IsMismatch(errFieldMismatch[p])
    /\ Len(dst[p]) = 1

\* C6: at most one call at a time is past lock.Lock() and not yet returned,
\* and it is the one that holds the lock.
C6_OneQueryAtATime ==
  /\ Cardinality({p \in Procs : pc[p] \in InQuery}) <= 1
  /\ \A p \in Procs : pc[p] \in InQuery => lock = p

\* one call is binding an object while the other waits for the lock
C6_Witness ==
  \E p, q \in Procs : pc[p] = "bind" /\ pc[q] = "lock" /\ lock = p

MismatchPositions(p) == {k \in 1..Len(src[p]) : IsMismatch(BindErr(p, k))}

Highest(S) == CHOOSE k \in S : \A j \in S : j <= k

\* C8: when every position is fetched and bound without a hard error and
\* some object gave a field mismatch, Query returns the mismatch of the
\* highest such position, and by then every position is in dst.
C8_LastMismatch ==
  \A p \in Procs :
    ( /\ pc[p] = "done" /\ ValidDst(shape[p]) /\ FetchedAll(p)
      /\ \A k \in 1..Len(src[p]) : BindErr(p, k).kind \in {"nil", "mismatch"}
      /\ MismatchPositions(p) # {} )
    => /\ ret[p] = BindErr(p, Highest(MismatchPositions(p)))
       /\ Len(dst[p]) = Len(dst0[p]) + count[p]

\* two objects with different mismatches: the second one's is returned
C8_Witness ==
  \E p \in Procs :
    /\ pc[p] = "done" /\ src[p] = <<"boolName", "sparse">>
    /\ ret[p] = ErrFieldMismatch("time", "CreationDate", "no such struct field")
    /\ ret[p] # BindErr(p, 1)
    /\ Len(dst[p]) = 2

(* ------------------- claims about the binding of fields ---------------- *)

\* the range of an integer kind
MinOf(kind) ==
  CASE kind = "int8" -> -128 [] kind = "int16" -> -32768 [] OTHER -> 0

MaxOf(kind) ==
  CASE kind = "int8" -> 127 [] kind = "int16" -> 32767
    [] kind = "uint8" -> 255 [] kind = "uint16" -> 65535 [] OTHER -> 0

\* the source value is of the field's own category and fits it
Compatible(fd, v) ==
  \/ fd.kind = "string" /\ v.k = "string"
  \/ fd.kind = "bool" /\ v.k = "bool"
  \/ fd.kind \in IntKinds \cup UintKinds /\ v.k = "int64" /\ v.n \in MinOf(fd.kind)..MaxOf(fd.kind)

\* what a field holds once set from a compatible source value: that value
SetFrom(fd, v) == FieldVal(fd.isPtr, FALSE, GoVal(fd.kind, v.n, v.s, v.b, <<>>))

\* a pointer field pointing at a new zero value (a plain field: its zero value)
ZeroAllocated(fd) == FieldVal(fd.isPtr, FALSE, ZeroOf(fd.kind))

\* the reason of the mismatch that field fd gives with source object o, if it
\* is one of: not settable, integer into a non-integer field, boolean into a
\* non-boolean field, unsupported source category; "" otherwise
HardReason(fd, o) ==
  IF ~fd.exported THEN (IF fd.isPtr THEN "" ELSE "CanSet() is false")
  ELSE IF ~HasProperty(o, fd.name) THEN ""
  ELSE LET v == PropertyOf(o, fd.name)
       IN  CASE v.k = "int64" /\ fd.kind \notin IntKinds \cup UintKinds -> "not an integer class"
             [] v.k = "bool" /\ fd.kind # "bool" -> "not a bool"
             [] v.k \notin {"int64", "string", "bool"} /\ ~(fd.isPtr /\ v.k = "nil") -> "unsupported type"
             [] OTHER -> ""

\* field fd with source object o ends the call by a panic or a parse error
HardError(fd, o) ==
  \/ ~fd.exported /\ fd.isPtr
  \/ /\ fd.exported /\ HasProperty(o, fd.name)
     /\ LET v == PropertyOf(o, fd.name)
        IN  /\ v.k = "string"
            /\ \/ fd.kind \in IntKinds \cup UintKinds /\ ~ParseInt(v.s).ok
               \/ fd.kind = "time" /\ ~TimeParse(TimeLiteral(v.s)).ok

\* the walk over the fields of T gets to field f
Reached(T, o, f) ==
  \A g \in 1..(f - 1) : HardReason(T[g], o) = "" /\ ~HardError(T[g], o)

\* some field of T has no property in o, and every other one is settable and
\* has a compatible property
OnlyMissing(T, o) ==
  /\ \E f \in 1..Len(T) : ~HasProperty(o, T[f].name)
  /\ \A f \in 1..Len(T) :
       /\ T[f].exported
       /\ HasProperty(o, T[f].name) => Compatible(T[f], PropertyOf(o, T[f].name))

\* what C4 says of the fields of the bound objects, given whether a pointer
\* field without a property is left nil
MissingFields(p, leftNil) ==
  \A k \in 1..Len(dst[p]) :
    LET T == Fields(shape[p].type)
        o == Properties(src[p][k])
    IN  OnlyMissing(T, o) =>
          \A f \in 1..Len(T) :
            dst[p][k].ent[f] =
              IF HasProperty(o, T[f].name) THEN SetFrom(T[f], PropertyOf(o, T[f].name))
              ELSE IF leftNil THEN ZeroField(T[f]) ELSE ZeroAllocated(T[f])

\* the object fetched at position k is such a one
MissingAt(p, k) == OnlyMissing(Fields(shape[p].type), Properties(src[p][k]))

\* what C4 says of Query: the object is appended all the same, and a result
\* set of one or more such objects ends in an *ErrFieldMismatch, returned
\* when all of them are in dst
MissingQuery(p) ==
  /\ \A k \in 1..Len(src[p]) :
       (MissingAt(p, k) /\ (k < Len(src[p]) \/ pc[p] # "bind"))
       => k <= Len(dst[p])
  /\ ( /\ pc[p] = "done" /\ FetchedAll(p) /\ count[p] >= 1
       /\ \A k \in 1..Len(src[p]) : MissingAt(p, k) )
     => /\ IsMismatch(ret[p]) /\ ret[p].reason = "no such struct field"
        /\ Len(dst[p]) = count[p]
  /\ IsMismatch(ret[p]) => pc[p] = "done" /\ Len(dst[p]) = count[p]

\* C4 as stated: a field without a like-named source property is left at its
\* zero value (nil, for a pointer field), the other fields are set, the
\* object is appended, and Query returns an *ErrFieldMismatch once all N
\* objects are in dst.
C4_Original ==
  \A p \in Procs :
    ValidDst(shape[p]) => MissingFields(p, TRUE) /\ MissingQuery(p)

\* C4, amended: as stated, but a pointer field without a like-named source
\* property is left pointing at a new zero value, not nil.
C4_MissingProperty ==
  \A p \in Procs :
    ValidDst(shape[p]) => MissingFields(p, FALSE) /\ MissingQuery(p)

\* two objects with nothing but a Name were bound and the mismatch returned
C4_Witness ==
  \E p \in Procs :
    /\ pc[p] = "done" /\ src[p] = <<"sparse", "sparse">> /\ Len(dst[p]) = 2
    /\ IsMismatch(ret[p])
    /\ dst[p][2].ent[1].val.s = <<"c">>
    /\ dst[p][2].ent[2].val.n = 0
    /\ ~dst[p][2].ent[3].isNil

\* the time fields of bindT that the walk gets to with a text to parse
TimeFields ==
  {f \in 1..Len(bindT) :
     /\ bindT[f].kind = "time" /\ bindT[f].exported
     /\ HasProperty(bindSrc, bindT[f].name)
     /\ PropertyOf(bindSrc, bindT[f].name).k = "string"
     /\ Reached(bindT, bindSrc, f)}

\* the text loadEntity handed to time.Parse for the field named n
Parsed(n) ==
  {bindOut.lits[k].arg : k \in {j \in 1..Len(bindOut.lits) : bindOut.lits[j].name = n}}

Padded(sv) == SubSeq(sv, 1, 22) \o <<"0">> \o SubSeq(sv, 23, Len(sv))

\* C5 as stated: a text of 24 characters is handed to the parser with "0"
\* inserted at offset 22, a text of 25 characters as it is.
C5_Original ==
  bindPc = "loaded" =>
    \A f \in TimeFields :
      LET sv == PropertyOf(bindSrc, bindT[f].name).s
      IN  /\ Len(sv) = 24 => Parsed(bindT[f].name) = {Padded(sv)}
          /\ Len(sv) = 25 => Parsed(bindT[f].name) = {sv}

\* C5, amended: a text of 25 characters is handed to the parser with "0"
\* inserted at offset 22 (26 characters, as the layout has); a text of any
\* other length, 24 among them, is handed over as it is.
C5_TimeLiteral ==
  bindPc = "loaded" =>
    \A f \in TimeFields :
      LET sv == PropertyOf(bindSrc, bindT[f].name).s
      IN  /\ Len(sv) = 25 => Parsed(bindT[f].name) = {Padded(sv)}
          /\ Len(sv) # 25 => Parsed(bindT[f].name) = {sv}

\* the 25 characters of a WMI date were padded to 26 and parsed
C5_Witness ==
  /\ bindPc = "loaded" /\ bindT = Win32_Process /\ 3 \in TimeFields
  /\ PropertyOf(bindSrc, "CreationDate").s = Date25
  /\ bindOut.ent[3].val.t = <<2014, 1, 2, 3, 4, 5, 123456, 60>>

\* the fields that give one of the four mismatches of C9 and are reached
HardMismatchFields ==
  {f \in 1..Len(bindT) : HardReason(bindT[f], bindSrc) # "" /\ Reached(bindT, bindSrc, f)}

\* C9 as stated: after such a mismatch on field f the walk goes on, and every
\* later field with a compatible source property is set from it.
C9_Original ==
  bindPc = "loaded" =>
    \A f \in HardMismatchFields : \A g \in (f + 1)..Len(bindT) :
      ( /\ bindT[g].exported /\ HasProperty(bindSrc, bindT[g].name)
        /\ Compatible(bindT[g], PropertyOf(bindSrc, bindT[g].name)) )
      => bindOut.ent[g] = SetFrom(bindT[g], PropertyOf(bindSrc, bindT[g].name))

\* C9, amended: such a mismatch on field f stops the walk: loadEntity returns
\* that mismatch at once, every field after f is left at its zero value (a
\* pointer field nil) whatever its source property, and the fields before f
\* keep what they were set to.
C9_MismatchStops ==
  bindPc = "loaded" =>
    \A f \in HardMismatchFields :
      /\ bindOut.err =
           ErrFieldMismatch(bindT[f].kind, bindT[f].name, HardReason(bindT[f], bindSrc))
      /\ \A g \in (f + 1)..Len(bindT) : bindOut.ent[g] = ZeroField(bindT[g])
      /\ \A g \in 1..(f - 1) :
           ( /\ HasProperty(bindSrc, bindT[g].name)
             /\ Compatible(bindT[g], PropertyOf(bindSrc, bindT[g].name)) )
           => bindOut.ent[g] = SetFrom(bindT[g], PropertyOf(bindSrc, bindT[g].name))

\* a boolean Name stopped the walk over Win32_Process before a HandleCount of 7
C9_Witness ==
  /\ bindPc = "loaded" /\ bindT = Win32_Process /\ 1 \in HardMismatchFields
  /\ HasProperty(bindSrc, "HandleCount")
  /\ PropertyOf(bindSrc, "HandleCount") = IntV(7)
  /\ bindOut.ent[2].val.n = 0
  /\ bindOut.err.reason = "not a bool"

\* the pointer fields that are reached and whose source property is null
NullPtrFields ==
  {f \in 1..Len(bindT) :
     /\ bindT[f].isPtr /\ bindT[f].exported
     /\ HasProperty(bindSrc, bindT[f].name)
     /\ PropertyOf(bindSrc, bindT[f].name).k = "nil"
     /\ Reached(bindT, bindSrc, f)}

NoMismatchFor(f) == ~(IsMismatch(bindOut.err) /\ bindOut.err.name = bindT[f].name)

\* C10 as stated: a pointer field whose source property is null is nil in
\* the bound struct, and no mismatch is reported for it.
C10_Original ==
  bindPc = "loaded" =>
    \A f \in NullPtrFields : bindOut.ent[f].isNil /\ NoMismatchFor(f)

\* C10, amended: a pointer field whose source property is null is left
\* pointing at a new zero value (it is not nil), and no mismatch is reported
\* for it.
C10_NullIntoPointer ==
  bindPc = "loaded" =>
    \A f \in NullPtrFields : bindOut.ent[f] = ZeroAllocated(bindT[f]) /\ NoMismatchFor(f)

\* a null CreationDate was bound into Win32_Process without any error
C10_Witness ==
  /\ bindPc = "loaded" /\ bindT = Win32_Process /\ 3 \in NullPtrFields
  /\ bindOut.err = NilErr
  /\ ~bindOut.ent[3].isNil
  /\ bindOut.ent[3].val = ZeroOf("time")

====
